---- MODULE Spec2Model ----
(***************************************************************************)
(* SkyDash telemetry providers.                                            *)
(*                                                                         *)
(*   MAVLinkDrone  (backend/mavlink_adapter.py)  streaming ingestor        *)
(*   DroneState    (backend/main.py)             synthetic generator       *)
(*   DJIDrone      (backend/dji_adapter.py)      snapshot bridge           *)
(*                                                                         *)
(* Python floats are modelled as exact rationals <<num, den>> in lowest    *)
(* terms with den > 0; Python ints, bools and strs as TLA+ integers,       *)
(* booleans and strings.  Threads of the ingestor interleave at the        *)
(* granularity of one attribute or dictionary access per step, which is    *)
(* what the interpreter lock of CPython guarantees and no more: the        *)
(* adapter takes no lock of its own.                                       *)
(***************************************************************************)
EXTENDS Integers, Sequences, FiniteSets, TLC

(***************************************************************************)
(* Bounds of the model.                                                    *)
(***************************************************************************)
\* Calls the serving layer makes on one ingestor whose peer is silent.
MaxCalls == 3

\* Calls the serving layer makes on one ingestor whose peer streams.
StreamCalls == 2

\* Messages a streaming peer delivers.
MaxMsgs == 2

\* Last reading of the clock by an ingestor.
MaxTime == 1

\* Last reading of the clock by the generator and by the bridge.
MaxClock == 2

\* Telemetry calls on one generator instance.
GenMaxCalls == 2805

\* The threads of the serving layer that call into one MAVLinkDrone.
Callers == {"c1", "c2"}

\* Values time.time() may return.
Times == 1..MaxTime

Clock == 1..MaxClock

(***************************************************************************)
(* Rational arithmetic for the float computations of the source.           *)
(***************************************************************************)
Abs(x) == IF x < 0 THEN -x ELSE x

RECURSIVE GCD(_, _)
GCD(a, b) == IF b = 0 THEN a ELSE GCD(b, a % b)

Frac(n, d) == LET g == GCD(Abs(n), d) IN <<n \div g, d \div g>>

Zero == Frac(0, 1)

FMul(f, g) == Frac(f[1] * g[1], f[2] * g[2])

FLess(f, g) == f[1] * g[2] < g[1] * f[2]

\* round(x, 2): the nearest multiple of 1/100.  Python rounds the binary
\* double, so on an exact decimal tie (x.xx5) the result is whichever
\* neighbour the double happens to lie nearer to: both are possible.
Round2Set(f) ==
    LET s == IF f[1] < 0 THEN -1 ELSE 1
        a == Abs(f[1]) * 100
        q == a \div f[2]
        r == a % f[2]
    IN  IF 2 * r < f[2] THEN {Frac(s * q, 100)}
        ELSE IF 2 * r > f[2] THEN {Frac(s * (q + 1), 100)}
        ELSE {Frac(s * q, 100), Frac(s * (q + 1), 100)}

(***************************************************************************)
(* MAVLinkDrone: state.                                                    *)
(***************************************************************************)
VARIABLES
    master,            \* self.master: 0 is None, else an index into conns
    latest_telemetry,  \* self.latest_telemetry: the dict, a partial map
    running,           \* self.running
    thread,            \* self.thread: 0 is None, else an index into threads
    conns,             \* every transport mavlink_connection() has returned
    threads,           \* every threading.Thread connect() has created
    pc,                \* per caller: the line of the adapter it stands at
    local,             \* per caller: locals of the call in progress, and
                       \*   the situation (from) in which the call was made
    ret,               \* per caller: how its last call ended
    snaps,             \* per caller: the dict's values during its get_telemetry()
    settled,           \* nothing connected: never, or since the disconnect()
                       \*   that followed the one connect() returned
    budget,            \* calls the serving layer makes on the ingestor in this run
    nCalls,            \* calls made on the ingestor so far
    nMsgs,             \* messages the transport has delivered so far
    handled            \* per message kind: the number of the last message of
                       \*   the kind recv_match() returned (0: none yet), and
                       \*   whether _process_message() has returned from it

mavVars == <<master, latest_telemetry, running, thread, conns, threads, pc,
             local, ret, snaps, settled, budget, nCalls, nMsgs, handled>>

(***************************************************************************)
(* DroneState and DJIDrone: state.                                         *)
(***************************************************************************)
VARIABLES
    drone,             \* main.py: the global DroneState instance
    genRet,            \* what the last call on the generator returned
    djiResp,           \* what the bridge answered to the last get_telemetry()
    djiRet             \* what the last DJIDrone.get_telemetry() returned

genVars == <<drone, genRet>>

djiVars == <<djiResp, djiRet>>

\* What no step of a MAVLinkDrone touches.
outsideMav == <<budget, genVars, djiVars>>

\* What only the receive loop of a MAVLinkDrone touches, and what no step
\* of a MAVLinkDrone does.
outsideCalls == <<handled, outsideMav>>

\* The attributes of the ingestor object and the objects they refer to.
ingestor == <<master, latest_telemetry, running, thread, conns, threads>>

\* dict.get(key, default)
Get(d, k, default) == IF k \in DOMAIN d THEN d[k] ELSE default

\* d[key] = value
Put(d, k, v) == [x \in DOMAIN d \cup {k} |-> IF x = k THEN v ELSE d[x]]

EmptyDict == [x \in {} |-> 0]

(***************************************************************************)
(* MAVLink messages.  The n-th message delivered carries payloads tagged   *)
(* with n, so that every value read back names the message it came from.   *)
(***************************************************************************)
RadToDeg == Frac(572958, 10000)

MAV_MODE_FLAG_SAFETY_ARMED == 128

\* The two heartbeats of the model: base_mode 81 (disarmed) and 209 (armed).
Heartbeats == {[base_mode |-> 81, custom_mode |-> 0],
               [base_mode |-> 209, custom_mode |-> 5]}

\* mavutil.mode_string_v10(msg), for an ArduCopter heartbeat.
mode_string_v10(hb) ==
    IF hb.custom_mode = 0 THEN "STABILIZE"
    ELSE IF hb.custom_mode = 5 THEN "LOITER"
    ELSE "Mode(" \o ToString(hb.custom_mode) \o ")"

\* base_mode & MAV_MODE_FLAG_SAFETY_ARMED != 0
IsArmed(base_mode) == (base_mode \div MAV_MODE_FLAG_SAFETY_ARMED) % 2 # 0

Kinds == {"ATTITUDE", "GLOBAL_POSITION_INT", "VFR_HUD", "SYS_STATUS",
          "GPS_RAW_INT", "HEARTBEAT", "STATUSTEXT"}

NoMsg == [type |-> "NONE", n |-> 0, base_mode |-> 0, custom_mode |-> 0]

Messages(n) ==
    {[type |-> t, n |-> n, base_mode |-> 0, custom_mode |-> 0] :
        t \in {"ATTITUDE", "GLOBAL_POSITION_INT", "VFR_HUD", "SYS_STATUS",
               "GPS_RAW_INT", "STATUSTEXT"}}
    \cup {[type |-> "HEARTBEAT", n |-> n, base_mode |-> h.base_mode,
           custom_mode |-> h.custom_mode] : h \in Heartbeats}

\* Payload fields of the n-th message.
msg_roll(n) == Frac(n, 1)
msg_pitch(n) == Frac(-n, 2)
msg_yaw(n) == Frac(n, 4)
msg_relative_alt(n) == 12500 * n
msg_lat(n) == 377749000 + n
msg_lon(n) == -1224194000 - n
msg_groundspeed(n) == Frac(3 * n, 2)
msg_alt(n) == Frac(100 + n, 1)
msg_voltage_battery(n) == 16800 - 100 * n
msg_battery_remaining(n) == 100 - n
msg_satellites_visible(n) == 10 + n
msg_fix_type(n) == 3

\* _process_message storing the integer fields of the message as they
\* come (millimetres, degrees * 1e7, millivolts), without the divisions.
WritesUnscaled(m) ==
    IF m.type = "GLOBAL_POSITION_INT" THEN
        <<<<"altitude", Frac(msg_relative_alt(m.n), 1)>>,
          <<"latitude", Frac(msg_lat(m.n), 1)>>,
          <<"longitude", Frac(msg_lon(m.n), 1)>>>>
    ELSE IF m.type = "SYS_STATUS" THEN
        <<<<"battery_voltage", Frac(msg_voltage_battery(m.n), 1)>>,
          <<"battery_remaining", msg_battery_remaining(m.n)>>>>
    ELSE IF m.type = "ATTITUDE" THEN
        <<<<"roll", FMul(msg_roll(m.n), RadToDeg)>>,
          <<"pitch", FMul(msg_pitch(m.n), RadToDeg)>>,
          <<"yaw", FMul(msg_yaw(m.n), RadToDeg)>>>>
    ELSE IF m.type = "VFR_HUD" THEN
        <<<<"ground_speed", msg_groundspeed(m.n)>>,
          <<"altitude_msl", msg_alt(m.n)>>>>
    ELSE IF m.type = "GPS_RAW_INT" THEN
        <<<<"gps_satellites", msg_satellites_visible(m.n)>>,
          <<"gps_fix_type", msg_fix_type(m.n)>>>>
    ELSE IF m.type = "HEARTBEAT" THEN
        <<<<"armed", IsArmed(m.base_mode)>>,
          <<"flight_mode", mode_string_v10(m)>>>>
    ELSE <<>>

\* _process_message storing msg.alt of a VFR_HUD message under 'altitude'
\* and noting the text of a STATUSTEXT message.
WritesAcross(m) ==
    IF m.type = "VFR_HUD" THEN
        <<<<"ground_speed", msg_groundspeed(m.n)>>,
          <<"altitude", msg_alt(m.n)>>>>
    ELSE IF m.type = "STATUSTEXT" THEN
        <<<<"flight_mode", "STATUSTEXT">>>>
    ELSE IF m.type = "ATTITUDE" THEN
        <<<<"roll", FMul(msg_roll(m.n), RadToDeg)>>,
          <<"pitch", FMul(msg_pitch(m.n), RadToDeg)>>,
          <<"yaw", FMul(msg_yaw(m.n), RadToDeg)>>>>
    ELSE IF m.type = "GLOBAL_POSITION_INT" THEN
        <<<<"altitude", Frac(msg_relative_alt(m.n), 1000)>>,
          <<"latitude", Frac(msg_lat(m.n), 10000000)>>,
          <<"longitude", Frac(msg_lon(m.n), 10000000)>>>>
    ELSE IF m.type = "SYS_STATUS" THEN
        <<<<"battery_voltage", Frac(msg_voltage_battery(m.n), 1000)>>,
          <<"battery_remaining", msg_battery_remaining(m.n)>>>>
    ELSE IF m.type = "GPS_RAW_INT" THEN
        <<<<"gps_satellites", msg_satellites_visible(m.n)>>,
          <<"gps_fix_type", msg_fix_type(m.n)>>>>
    ELSE IF m.type = "HEARTBEAT" THEN
        <<<<"armed", IsArmed(m.base_mode)>>,
          <<"flight_mode", mode_string_v10(m)>>>>
    ELSE <<>>

\* _process_message: the dictionary stores a message of each kind makes, in
\* program order, each <<key, value>>.
Writes(m) ==
    IF m.type = "ATTITUDE" THEN
        <<<<"roll", FMul(msg_roll(m.n), RadToDeg)>>,
          <<"pitch", FMul(msg_pitch(m.n), RadToDeg)>>,
          <<"yaw", FMul(msg_yaw(m.n), RadToDeg)>>>>
    ELSE IF m.type = "GLOBAL_POSITION_INT" THEN
        <<<<"altitude", Frac(msg_relative_alt(m.n), 1000)>>,
          <<"latitude", Frac(msg_lat(m.n), 10000000)>>,
          <<"longitude", Frac(msg_lon(m.n), 10000000)>>>>
    ELSE IF m.type = "VFR_HUD" THEN
        <<<<"ground_speed", msg_groundspeed(m.n)>>,
          <<"altitude_msl", msg_alt(m.n)>>>>
    ELSE IF m.type = "SYS_STATUS" THEN
        <<<<"battery_voltage", Frac(msg_voltage_battery(m.n), 1000)>>,
          <<"battery_remaining", msg_battery_remaining(m.n)>>>>
    ELSE IF m.type = "GPS_RAW_INT" THEN
        <<<<"gps_satellites", msg_satellites_visible(m.n)>>,
          <<"gps_fix_type", msg_fix_type(m.n)>>>>
    ELSE IF m.type = "HEARTBEAT" THEN
        <<<<"armed", IsArmed(m.base_mode)>>,
          <<"flight_mode", mode_string_v10(m)>>>>
    ELSE <<>>

(***************************************************************************)
(* MAVLinkDrone.get_telemetry: the dictionary reads of the dict display,   *)
(* in evaluation order, and the record built from the values read.         *)
(***************************************************************************)
GetReads ==
    <<"altitude", "battery_voltage", "armed", "roll", "pitch", "yaw",
      "gps_satellites", "latitude", "longitude", "altitude", "ground_speed",
      "armed", "flight_mode">>

GetDefaults ==
    <<Zero, Zero, FALSE, Zero, Zero, Zero, 0, Zero, Zero, Zero, Zero, FALSE,
      "UNKNOWN">>

\* The record from the values v read in the order of GetReads, the time ts,
\* and the results rr, rp, ry, rg of the four round(.., 2) calls.
Record(ts, v, rr, rp, ry, rg) ==
    [timestamp |-> ts,
     altitude |-> v[1],
     battery_voltage |-> v[2],
     status |-> IF v[3] THEN "ARMED" ELSE "DISARMED",
     attitude |-> [roll |-> rr, pitch |-> rp, yaw |-> ry],
     gps |-> [satellites |-> v[7], latitude |-> v[8], longitude |-> v[9],
              altitude |-> v[10]],
     signal_strength |-> 100,
     ground_speed |-> rg,
     armed |-> v[12],
     flight_mode |-> v[13]]

\* The records get_telemetry() can build from values v read at time ts.
Records(ts, v) ==
    {Record(ts, v, rr, rp, ry, rg) :
        rr \in Round2Set(v[4]), rp \in Round2Set(v[5]),
        ry \in Round2Set(v[6]), rg \in Round2Set(v[11])}

\* What reading every key from the one dictionary value d gives.
ReadAll(d) == [i \in 1..Len(GetReads) |-> Get(d, GetReads[i], GetDefaults[i])]

DefaultRecord == Record(0, GetDefaults, Zero, Zero, Zero, Zero)

NoLocal == [ts |-> 0, vals |-> <<>>, jt |-> 0, from |-> "none"]

NoRet == [kind |-> "none", rec |-> DefaultRecord, from |-> "none"]

ConnectPcs == {"c34", "c38", "c47", "c48", "c49"}
DisconnectPcs == {"d130", "d131", "join", "d132", "d133"}
GetPcs == {"g107"}

\* The situation a call is made in: no transport was ever opened ("never"),
\* the disconnect() that followed the one connect() has returned
\* ("settled"), exactly one connect() has returned normally and none is
\* under way ("connected"), or anything else.
Situation ==
    IF settled THEN (IF conns = <<>> THEN "never" ELSE "settled")
    ELSE IF /\ Len(conns) = 1
            /\ Len(threads) = 1
            /\ threads[1].pc # "new"
            /\ \A c \in Callers : pc[c] \notin ConnectPcs
         THEN "connected"
         ELSE "other"

\* The call of c begins: its frame is new and it has no result yet.
Called(c, frame) ==
    /\ local' = [local EXCEPT ![c] = [frame EXCEPT !.from = Situation]]
    /\ ret' = [ret EXCEPT ![c] = NoRet]

\* The call of c ends.
Returned(c, kind) ==
    /\ pc' = [pc EXCEPT ![c] = "idle"]
    /\ ret' = [ret EXCEPT ![c] = [kind |-> kind, rec |-> DefaultRecord,
                                  from |-> local[c].from]]
    /\ local' = [local EXCEPT ![c] = NoLocal]

MavInit(b) ==
    /\ budget = b
    /\ master = 0
    /\ latest_telemetry = EmptyDict
    /\ running = FALSE
    /\ thread = 0
    /\ conns = <<>>
    /\ threads = <<>>
    /\ pc = [c \in Callers |-> "idle"]
    /\ local = [c \in Callers |-> NoLocal]
    /\ ret = [c \in Callers |-> NoRet]
    /\ snaps = [c \in Callers |-> {}]
    /\ settled = TRUE
    /\ nCalls = 0
    /\ nMsgs = 0
    /\ handled = [k \in Kinds |-> [n |-> 0, done |-> FALSE]]

(***************************************************************************)
(* MAVLinkDrone.connect                                                    *)
(***************************************************************************)
\* connect() is called; line 33: mavlink_connection() returns a transport;
\* hb says whether its peer ever sends a heartbeat.  A disconnect() under
\* way is from now on one that a connect() has interleaved with.
ConnectOpen(c) ==
    /\ pc[c] = "idle"
    /\ nCalls < budget
    /\ nCalls' = nCalls + 1
    /\ \E hb \in BOOLEAN :
         conns' = Append(conns, [open |-> TRUE, hb |-> hb, closes |-> 0,
                                 stream |-> FALSE])
    /\ master' = Len(conns) + 1
    /\ pc' = [pc EXCEPT ![c] = "c34"]
    /\ settled' = FALSE
    /\ local' = [o \in Callers |->
                    IF o = c THEN [NoLocal EXCEPT !.from = Situation]
                    ELSE IF pc[o] \in DisconnectPcs
                         THEN [local[o] EXCEPT !.from = "other"]
                         ELSE local[o]]
    /\ ret' = [ret EXCEPT ![c] = NoRet]
    /\ UNCHANGED <<latest_telemetry, running, thread, threads, snaps, nMsgs>>
    /\ UNCHANGED outsideCalls

\* connect() is called; line 33 raises (the device or port cannot be
\* opened); lines 51-53.
ConnectOpenFail(c) ==
    /\ pc[c] = "idle"
    /\ nCalls < budget
    /\ nCalls' = nCalls + 1
    /\ ret' = [ret EXCEPT ![c] = [kind |-> "raised", rec |-> DefaultRecord,
                                  from |-> Situation]]
    /\ UNCHANGED <<ingestor, pc, local, snaps, settled, nMsgs>>
    /\ UNCHANGED outsideCalls

\* connect() without line 34: it goes on to the stream request whether or
\* not the peer has sent a heartbeat.
ConnectNoHeartbeat(c) ==
    /\ pc[c] = "c34"
    /\ conns[master].open
    /\ pc' = [pc EXCEPT ![c] = "c38"]
    /\ UNCHANGED <<ingestor, local, ret, snaps, settled, nCalls, nMsgs>>
    /\ UNCHANGED outsideCalls

\* line 34: wait_heartbeat() is called without a timeout; it returns when a
\* heartbeat arrives and otherwise keeps waiting.
ConnectHeartbeat(c) ==
    /\ pc[c] = "c34"
    /\ conns[master].open
    /\ conns[master].hb
    /\ pc' = [pc EXCEPT ![c] = "c38"]
    /\ UNCHANGED <<ingestor, local, ret, snaps, settled, nCalls, nMsgs>>
    /\ UNCHANGED outsideCalls

\* line 34 or lines 38-44 raise: the transport was closed under the call.
ConnectTransportFail(c) ==
    /\ pc[c] \in {"c34", "c38"}
    /\ ~conns[master].open
    /\ Returned(c, "raised")
    /\ UNCHANGED <<ingestor, snaps, settled, nCalls, nMsgs>>
    /\ UNCHANGED outsideCalls

\* lines 38-44
ConnectRequestStream(c) ==
    /\ pc[c] = "c38"
    /\ conns[master].open
    /\ conns' = [conns EXCEPT ![master].stream = TRUE]
    /\ pc' = [pc EXCEPT ![c] = "c47"]
    /\ UNCHANGED <<master, latest_telemetry, running, thread, threads, local,
                   ret, snaps, settled, nCalls, nMsgs>>
    /\ UNCHANGED outsideCalls

\* line 47
ConnectSetRunning(c) ==
    /\ pc[c] = "c47"
    /\ running' = TRUE
    /\ pc' = [pc EXCEPT ![c] = "c48"]
    /\ UNCHANGED <<master, latest_telemetry, thread, conns, threads, local,
                   ret, snaps, settled, nCalls, nMsgs>>
    /\ UNCHANGED outsideCalls

\* line 48
ConnectNewThread(c) ==
    /\ pc[c] = "c48"
    /\ threads' = Append(threads, [pc |-> "new", msg |-> NoMsg, k |-> 0])
    /\ thread' = Len(threads) + 1
    /\ pc' = [pc EXCEPT ![c] = "c49"]
    /\ UNCHANGED <<master, latest_telemetry, running, conns, local, ret,
                   snaps, settled, nCalls, nMsgs>>
    /\ UNCHANGED outsideCalls

\* line 49: self.thread.start(), on whichever thread self.thread now names;
\* Thread.start() on a thread already started raises RuntimeError.
ConnectStart(c) ==
    /\ pc[c] = "c49"
    /\ IF threads[thread].pc = "new"
       THEN /\ threads' = [threads EXCEPT ![thread].pc = "loop"]
            /\ Returned(c, "connected")
       ELSE /\ threads' = threads
            /\ Returned(c, "raised")
    /\ UNCHANGED <<master, latest_telemetry, running, thread, conns, snaps,
                   settled, nCalls, nMsgs>>
    /\ UNCHANGED outsideCalls

(***************************************************************************)
(* MAVLinkDrone._receive_loop and _process_message, run by thread t.       *)
(***************************************************************************)
\* line 57 as "while True:": the loop never looks at self.running.
LoopForever(t) ==
    /\ t \in 1..Len(threads)
    /\ threads[t].pc = "loop"
    /\ threads' = [threads EXCEPT ![t].pc = "recv"]
    /\ UNCHANGED <<master, latest_telemetry, running, thread, conns, pc,
                   local, ret, snaps, settled, nCalls, nMsgs>>
    /\ UNCHANGED outsideCalls

\* line 57
LoopCheck(t) ==
    /\ t \in 1..Len(threads)
    /\ threads[t].pc = "loop"
    /\ threads' = [threads EXCEPT ![t].pc = IF running THEN "recv" ELSE "done"]
    /\ UNCHANGED <<master, latest_telemetry, running, thread, conns, pc,
                   local, ret, snaps, settled, nCalls, nMsgs>>
    /\ UNCHANGED outsideCalls

\* lines 59-61: recv_match() on self.master returns the next message.
RecvMsg(t) ==
    /\ t \in 1..Len(threads)
    /\ threads[t].pc = "recv"
    /\ conns[master].open
    /\ nMsgs < MaxMsgs
    /\ nMsgs' = nMsgs + 1
    /\ \E m \in Messages(nMsgs + 1) :
         /\ threads' = [threads EXCEPT ![t] =
                           IF Writes(m) = <<>>
                           THEN [pc |-> "loop", msg |-> NoMsg, k |-> 0]
                           ELSE [pc |-> "proc", msg |-> m, k |-> 1]]
         /\ handled' = [handled EXCEPT ![m.type] =
                           [n |-> m.n, done |-> Writes(m) = <<>>]]
    /\ UNCHANGED <<master, latest_telemetry, running, thread, conns, pc,
                   local, ret, snaps, settled, nCalls>>
    /\ UNCHANGED outsideMav

\* lines 59-60: recv_match() returns None after its timeout of one second.
RecvTimeout(t) ==
    /\ t \in 1..Len(threads)
    /\ threads[t].pc = "recv"
    /\ threads' = [threads EXCEPT ![t].pc = "loop"]
    /\ UNCHANGED <<master, latest_telemetry, running, thread, conns, pc,
                   local, ret, snaps, settled, nCalls, nMsgs>>
    /\ UNCHANGED outsideCalls

\* lines 59, 62-63: recv_match() raises on a closed transport; the exception
\* is printed and the loop goes on.
RecvError(t) ==
    /\ t \in 1..Len(threads)
    /\ threads[t].pc = "recv"
    /\ ~conns[master].open
    /\ threads' = [threads EXCEPT ![t].pc = "loop"]
    /\ UNCHANGED <<master, latest_telemetry, running, thread, conns, pc,
                   local, ret, snaps, settled, nCalls, nMsgs>>
    /\ UNCHANGED outsideCalls

\* lines 69-96: the k-th dictionary store of the message being processed.
ProcessWrite(t) ==
    /\ t \in 1..Len(threads)
    /\ threads[t].pc = "proc"
    /\ LET w == Writes(threads[t].msg)
           k == threads[t].k
       IN  /\ latest_telemetry' = Put(latest_telemetry, w[k][1], w[k][2])
           /\ threads' = [threads EXCEPT ![t] =
                             IF k = Len(w)
                             THEN [pc |-> "loop", msg |-> NoMsg, k |-> 0]
                             ELSE [@ EXCEPT !.k = k + 1]]
           /\ handled' =
                 LET m == threads[t].msg
                 IN  IF k = Len(w) /\ handled[m.type].n = m.n
                     THEN [handled EXCEPT ![m.type].done = TRUE]
                     ELSE handled
    /\ snaps' = [c \in Callers |->
                    IF pc[c] \in GetPcs
                    THEN snaps[c] \cup {latest_telemetry'}
                    ELSE snaps[c]]
    /\ UNCHANGED <<master, running, thread, conns, pc, local, ret, settled,
                   nCalls, nMsgs>>
    /\ UNCHANGED outsideMav

\* line 61 outside the "try": an exception of _process_message() ends the
\* thread.
ProcessErrorFatal(t) ==
    /\ t \in 1..Len(threads)
    /\ threads[t].pc = "proc"
    /\ threads' = [threads EXCEPT ![t] =
                       [pc |-> "done", msg |-> NoMsg, k |-> 0]]
    /\ UNCHANGED <<master, latest_telemetry, running, thread, conns, pc,
                   local, ret, snaps, settled, nCalls, nMsgs>>
    /\ UNCHANGED outsideCalls

\* lines 61-63: _process_message() raises before its k-th store (reading a
\* field of the message or converting it fails); the exception is printed
\* and the loop goes on.
ProcessError(t) ==
    /\ t \in 1..Len(threads)
    /\ threads[t].pc = "proc"
    /\ threads' = [threads EXCEPT ![t] =
                       [pc |-> "loop", msg |-> NoMsg, k |-> 0]]
    /\ UNCHANGED <<master, latest_telemetry, running, thread, conns, pc,
                   local, ret, snaps, settled, nCalls, nMsgs>>
    /\ UNCHANGED outsideCalls

(***************************************************************************)
(* MAVLinkDrone.get_telemetry                                              *)
(***************************************************************************)
\* get_telemetry() is called; line 106
GetTime(c) ==
    /\ pc[c] = "idle"
    /\ nCalls < budget
    /\ nCalls' = nCalls + 1
    /\ \E t \in Times : Called(c, [NoLocal EXCEPT !.ts = t])
    /\ pc' = [pc EXCEPT ![c] = "g107"]
    /\ snaps' = [snaps EXCEPT ![c] = {latest_telemetry}]
    /\ UNCHANGED <<ingestor, settled, nMsgs>>
    /\ UNCHANGED outsideCalls

\* lines 107-124 with self.latest_telemetry.setdefault(key, default) for
\* .get(key, default): a key that is missing is stored with its default.
GetReadSetDefault(c) ==
    /\ pc[c] = "g107"
    /\ LET i == Len(local[c].vals) + 1
           v == Append(local[c].vals,
                       Get(latest_telemetry, GetReads[i], GetDefaults[i]))
       IN  /\ latest_telemetry' = Put(latest_telemetry, GetReads[i], v[i])
           /\ IF i < Len(GetReads)
              THEN /\ local' = [local EXCEPT ![c].vals = v]
                   /\ UNCHANGED <<pc, ret>>
              ELSE /\ \E r \in Records(local[c].ts, v) :
                        ret' = [ret EXCEPT ![c] =
                                   [kind |-> "record", rec |-> r,
                                    from |-> local[c].from]]
                   /\ pc' = [pc EXCEPT ![c] = "idle"]
                   /\ local' = [local EXCEPT ![c] = NoLocal]
    /\ UNCHANGED <<master, running, thread, conns, threads, snaps, settled,
                   nCalls, nMsgs>>
    /\ UNCHANGED outsideCalls

\* lines 107-124: the next self.latest_telemetry.get(..); after the last
\* one the record is built and returned (line 105).
GetRead(c) ==
    /\ pc[c] = "g107"
    /\ LET i == Len(local[c].vals) + 1
           v == Append(local[c].vals,
                       Get(latest_telemetry, GetReads[i], GetDefaults[i]))
       IN  IF i < Len(GetReads)
           THEN /\ local' = [local EXCEPT ![c].vals = v]
                /\ UNCHANGED <<pc, ret>>
           ELSE /\ \E r \in Records(local[c].ts, v) :
                     ret' = [ret EXCEPT ![c] = [kind |-> "record", rec |-> r,
                                                from |-> local[c].from]]
                /\ pc' = [pc EXCEPT ![c] = "idle"]
                /\ local' = [local EXCEPT ![c] = NoLocal]
    /\ UNCHANGED <<ingestor, snaps, settled, nCalls, nMsgs>>
    /\ UNCHANGED outsideCalls

(***************************************************************************)
(* MAVLinkDrone.disconnect                                                 *)
(***************************************************************************)
\* disconnect() is called; line 129
DisconnectStop(c) ==
    /\ pc[c] = "idle"
    /\ nCalls < budget
    /\ nCalls' = nCalls + 1
    /\ running' = FALSE
    /\ pc' = [pc EXCEPT ![c] = "d130"]
    /\ Called(c, NoLocal)
    /\ UNCHANGED <<master, latest_telemetry, thread, conns, threads, snaps,
                   settled, nMsgs>>
    /\ UNCHANGED outsideCalls

\* line 130
DisconnectCheckThread(c) ==
    /\ pc[c] = "d130"
    /\ pc' = [pc EXCEPT ![c] = IF thread # 0 THEN "d131" ELSE "d132"]
    /\ UNCHANGED <<ingestor, local, ret, snaps, settled, nCalls, nMsgs>>
    /\ UNCHANGED outsideCalls

\* line 131: self.thread.join() binds the thread self.thread now names;
\* Thread.join() on a thread not yet started raises RuntimeError.
DisconnectJoin(c) ==
    /\ pc[c] = "d131"
    /\ IF threads[thread].pc = "new"
       THEN Returned(c, "raised")
       ELSE /\ pc' = [pc EXCEPT ![c] = "join"]
            /\ local' = [local EXCEPT ![c].jt = thread]
            /\ ret' = ret
    /\ UNCHANGED <<ingestor, snaps, settled, nCalls, nMsgs>>
    /\ UNCHANGED outsideCalls

\* line 131: join() returns once the thread it waits for has ended.
DisconnectJoined(c) ==
    /\ pc[c] = "join"
    /\ threads[local[c].jt].pc = "done"
    /\ pc' = [pc EXCEPT ![c] = "d132"]
    /\ UNCHANGED <<ingestor, local, ret, snaps, settled, nCalls, nMsgs>>
    /\ UNCHANGED outsideCalls

\* disconnect() returns; nothing is connected any more if the call was made
\* after the one connect() had returned and no connect() was called since.
DisconnectReturn(c) ==
    /\ Returned(c, "disconnected")
    /\ settled' = (settled \/ local[c].from = "connected")

\* line 132
DisconnectCheckMaster(c) ==
    /\ pc[c] = "d132"
    /\ IF master # 0
       THEN /\ pc' = [pc EXCEPT ![c] = "d133"]
            /\ UNCHANGED <<local, ret, settled>>
       ELSE DisconnectReturn(c)
    /\ UNCHANGED <<ingestor, snaps, nCalls, nMsgs>>
    /\ UNCHANGED outsideCalls

\* line 133
DisconnectClose(c) ==
    /\ pc[c] = "d133"
    /\ conns' = [conns EXCEPT ![master].open = FALSE,
                              ![master].closes = @ + 1]
    /\ DisconnectReturn(c)
    /\ UNCHANGED <<master, latest_telemetry, running, thread, threads, snaps,
                   nCalls, nMsgs>>
    /\ UNCHANGED outsideCalls

(***************************************************************************)
(* Steps of the callers and of the background threads.                     *)
(***************************************************************************)
ThreadIds == 1..MaxCalls

\* A caller goes on with the call it is in.
CallerStep(c) ==
    \/ ConnectHeartbeat(c)
    \/ ConnectTransportFail(c)
    \/ ConnectRequestStream(c)
    \/ ConnectSetRunning(c)
    \/ ConnectNewThread(c)
    \/ ConnectStart(c)
    \/ GetRead(c)
    \/ DisconnectCheckThread(c)
    \/ DisconnectJoin(c)
    \/ DisconnectJoined(c)
    \/ DisconnectCheckMaster(c)
    \/ DisconnectClose(c)

\* The serving layer makes a call.
CallerCall(c) ==
    \/ ConnectOpen(c)
    \/ ConnectOpenFail(c)
    \/ GetTime(c)
    \/ DisconnectStop(c)

\* A background thread goes on when the peer is silent.
QuietThreadStep(t) ==
    \/ LoopCheck(t)
    \/ RecvTimeout(t)
    \/ RecvError(t)

\* A background thread receives and processes a message.
MessageStep(t) ==
    \/ RecvMsg(t)
    \/ ProcessWrite(t)
    \/ ProcessError(t)

MavNext ==
    \/ \E c \in Callers : CallerCall(c) \/ CallerStep(c)
    \/ \E t \in ThreadIds : QuietThreadStep(t) \/ MessageStep(t)

(***************************************************************************)
(* DroneState (main.py): the synthetic generator.                          *)
(***************************************************************************)
LCM(a, b) == (a \div GCD(a, b)) * b

FAdd(f, g) ==
    LET l == LCM(f[2], g[2])
    IN  Frac(f[1] * (l \div f[2]) + g[1] * (l \div g[2]), l)

FSub(f, g) == FAdd(f, <<-g[1], g[2]>>)

FMax(f, g) == IF FLess(f, g) THEN g ELSE f

\* line 53: the minimum safe voltage, 14.0
MinVoltage == Frac(14, 1)

\* DroneState.__init__ at time t; the instance of line 103 is made at the
\* first reading of the clock.
DroneStateInit(t) ==
    [start_time |-> t,
     initial_battery |-> Frac(168, 10),
     battery_drain_rate |-> Frac(1, 1000),
     request_count |-> 0,
     base_altitude |-> Frac(50, 1),
     altitude_variance |-> Frac(5, 1)]

\* One call's values of math.sin(elapsed_time * 0.6) and of the random
\* source: random.gauss (twice), randint (twice), uniform (three times).
Draws ==
    {[sin |-> Frac(-1, 1), roll |-> Frac(-67, 100), pitch |-> Frac(134, 100),
      satellites |-> 10, signal |-> 85, speed |-> Frac(1, 2),
      dlat |-> Frac(-1, 10000), dlon |-> Frac(1, 10000)],
     [sin |-> Frac(3, 5), roll |-> Frac(0, 1), pitch |-> Frac(-201, 100),
      satellites |-> 14, signal |-> 100, speed |-> Frac(5, 2),
      dlat |-> Frac(1, 20000), dlon |-> Frac(-1, 10000)]}

\* lines 52-55: the voltage after request_count calls
BatteryVoltage(d) ==
    FMax(MinVoltage,
         FSub(d.initial_battery,
              FMul(d.battery_drain_rate, Frac(d.request_count, 1))))

\* The request counts at which the double 16.8 - 0.001 * request_count,
\* whose decimal value ends in 5 thousandths, lies below that value, so
\* that round(.., 2) rounds it down; at the other such counts it lies above.
RoundedDown ==
    {45, 65, 85, 135, 155, 175, 225, 245, 295, 315, 335, 385, 405, 475, 495,
     545, 565, 585, 635, 655, 675, 725, 745, 795, 835, 1005, 1085, 1175,
     1245, 1255, 1335, 1495, 1505, 1585, 1675, 1745, 1755, 1835, 1995, 2085,
     2155, 2175, 2245, 2335, 2405, 2495, 2585, 2655, 2675, 2745}

\* line 82: round(battery_voltage, 2) on the instance d
RoundedVoltage(d) ==
    LET rs == Round2Set(BatteryVoltage(d))
        lo == CHOOSE r \in rs : \A o \in rs : ~FLess(o, r)
        hi == CHOOSE r \in rs : \A o \in rs : ~FLess(r, o)
    IN  IF d.request_count \in RoundedDown THEN lo ELSE hi

\* line 61
BatteryStatus(battery_voltage) ==
    IF FLess(MinVoltage, battery_voltage) THEN "ARMED" ELSE "RTL"

\* lines 43-99: the records a call can return on the instance d (its
\* request_count already incremented) at time now with the draws rnd.
GenRecords(d, now, rnd) ==
    LET elapsed_time == now - d.start_time
        altitude == FAdd(d.base_altitude, FMul(d.altitude_variance, rnd.sin))
        battery_voltage == BatteryVoltage(d)
        status == BatteryStatus(battery_voltage)
    IN  {[timestamp |-> Frac(elapsed_time, 1),
          altitude |-> ra,
          battery_voltage |-> RoundedVoltage(d),
          status |-> status,
          attitude |-> [roll |-> rnd.roll, pitch |-> rnd.pitch,
                        yaw |-> Frac((elapsed_time * 5) % 360, 1)],
          gps |-> [satellites |-> rnd.satellites,
                   latitude |-> FAdd(Frac(377749, 10000), rnd.dlat),
                   longitude |-> FAdd(Frac(-1224194, 10000), rnd.dlon),
                   altitude |-> ra],
          signal_strength |-> rnd.signal,
          ground_speed |-> rnd.speed,
          armed |-> (status = "ARMED"),
          flight_mode |-> IF status = "ARMED" THEN "STABILIZE" ELSE "RTL"] :
            ra \in Round2Set(altitude)}

GenInit ==
    /\ drone = DroneStateInit(1)
    /\ genRet = [kind |-> "none", rec |-> DefaultRecord, before |-> "none"]

\* GET /telemetry: DroneState.get_telemetry on the global instance
GenGetTelemetry ==
    /\ drone.request_count < GenMaxCalls
    /\ \E now \in Clock, rnd \in Draws :
         /\ now >= drone.start_time
         /\ LET d == [drone EXCEPT !.request_count = @ + 1]
            IN  /\ drone' = d
                /\ \E r \in GenRecords(d, now, rnd) :
                     genRet' = [genRet EXCEPT !.kind = "record", !.rec = r]
    /\ UNCHANGED <<mavVars, djiVars>>

\* POST /reset that restarts the clock of the instance and keeps its counter.
ResetKeepsCount ==
    /\ \E t \in Clock :
         /\ t >= drone.start_time
         /\ drone' = [drone EXCEPT !.start_time = t]
    /\ genRet' = [kind |-> "reset", rec |-> DefaultRecord,
                  before |-> IF genRet.kind = "record"
                             THEN genRet.rec.status ELSE genRet.before]
    /\ UNCHANGED <<mavVars, djiVars>>

\* POST /reset: the global instance is replaced by a new DroneState.
\* genRet.before remembers the status last reported by the old instance.
ResetSimulation ==
    /\ \E t \in Clock :
         /\ t >= drone.start_time
         /\ drone' = DroneStateInit(t)
    /\ genRet' = [kind |-> "reset", rec |-> DefaultRecord,
                  before |-> IF genRet.kind = "record"
                             THEN genRet.rec.status ELSE genRet.before]
    /\ UNCHANGED <<mavVars, djiVars>>

GenNext == GenGetTelemetry \/ ResetSimulation

(***************************************************************************)
(* DJIDrone (dji_adapter.py): the snapshot bridge.                         *)
(***************************************************************************)
SubRequests == <<"attitude", "battery", "gps", "status">>

\* A sub-request either raises (session.get() or .json() does) or returns
\* the mapping the bridge sent, from which keys may be missing.
Failed == [ok |-> FALSE, body |-> EmptyDict]

Answer(body) == [ok |-> TRUE, body |-> body]

DjiAnswers ==
    [attitude |->
        {Failed, Answer(EmptyDict),
         Answer([roll |-> Frac(3, 2), pitch |-> Frac(-2, 1), yaw |-> Frac(90, 1)])},
     battery |->
        {Failed, Answer(EmptyDict), Answer([voltage |-> Frac(152, 10)])},
     gps |->
        {Failed, Answer(EmptyDict),
         Answer([latitude |-> Frac(225, 10), longitude |-> Frac(1140, 10)]),
         Answer([altitude |-> Frac(30, 1), satellite_count |-> 12,
                 latitude |-> Frac(225, 10), longitude |-> Frac(1140, 10),
                 speed |-> Frac(7, 2)])},
     status |->
        {Failed, Answer(EmptyDict),
         Answer([flight_mode |-> "P-GPS", signal_strength |-> 80,
                 motors_on |-> TRUE])}]

DjiResponses ==
    [attitude : DjiAnswers.attitude, battery : DjiAnswers.battery,
     gps : DjiAnswers.gps, status : DjiAnswers.status]

\* lines 67-80
EmptyTelemetry(ts) ==
    [timestamp |-> ts,
     altitude |-> Zero,
     battery_voltage |-> Zero,
     status |-> "DISCONNECTED",
     attitude |-> [roll |-> Zero, pitch |-> Zero, yaw |-> Zero],
     gps |-> [satellites |-> 0, latitude |-> Zero, longitude |-> Zero,
              altitude |-> Zero],
     signal_strength |-> 0,
     ground_speed |-> Zero,
     armed |-> FALSE,
     flight_mode |-> "UNKNOWN"]

\* lines 42-62
DjiRecord(attitude, battery, gps, status, ts) ==
    [timestamp |-> ts,
     altitude |-> Get(gps, "altitude", Zero),
     battery_voltage |-> Get(battery, "voltage", Zero),
     status |-> Get(status, "flight_mode", "UNKNOWN"),
     attitude |-> [roll |-> Get(attitude, "roll", Zero),
                   pitch |-> Get(attitude, "pitch", Zero),
                   yaw |-> Get(attitude, "yaw", Zero)],
     gps |-> [satellites |-> Get(gps, "satellite_count", 0),
              latitude |-> Get(gps, "latitude", Zero),
              longitude |-> Get(gps, "longitude", Zero),
              altitude |-> Get(gps, "altitude", Zero)],
     signal_strength |-> Get(status, "signal_strength", 0),
     ground_speed |-> Get(gps, "speed", Zero),
     armed |-> Get(status, "motors_on", FALSE),
     flight_mode |-> Get(status, "flight_mode", "UNKNOWN")]

\* lines 35-65, with "except" around each sub-request instead of around all.
DjiTelemetryPerRequest(resp, ts) ==
    DjiRecord(resp.attitude.body, resp.battery.body, resp.gps.body,
              resp.status.body, ts)

\* lines 35-65: DJIDrone.get_telemetry on the answers resp at time ts
DjiTelemetry(resp, ts) ==
    IF \A i \in 1..Len(SubRequests) : resp[SubRequests[i]].ok
    THEN DjiRecord(resp.attitude.body, resp.battery.body, resp.gps.body,
                   resp.status.body, ts)
    ELSE EmptyTelemetry(ts)

DjiInit ==
    /\ djiResp = [attitude |-> Failed, battery |-> Failed, gps |-> Failed,
                  status |-> Failed]
    /\ djiRet = [kind |-> "none", rec |-> EmptyTelemetry(0)]

DjiGetTelemetry ==
    /\ \E resp \in DjiResponses, ts \in Clock :
         /\ djiResp' = resp
         /\ djiRet' = [kind |-> "record", rec |-> DjiTelemetry(resp, ts)]
    /\ UNCHANGED <<mavVars, genVars>>

DjiNext == DjiGetTelemetry

(***************************************************************************)
(* Specifications.                                                         *)
(***************************************************************************)
vars == <<mavVars, genVars, djiVars>>

\* One MAVLinkDrone whose peer streams messages.
Init == MavInit(StreamCalls) /\ GenInit /\ DjiInit

Next == MavNext

Spec == Init /\ [][Next]_vars

\* One MAVLinkDrone whose peer sends heartbeats at most.  A call under way
\* goes on and a started thread runs (the interpreter schedules every
\* thread); recv_match() ends within its timeout.  Nothing obliges the
\* serving layer to make a call.
QuietInit == MavInit(MaxCalls) /\ GenInit /\ DjiInit

QuietNext ==
    \/ \E c \in Callers : CallerCall(c) \/ CallerStep(c)
    \/ \E t \in ThreadIds : QuietThreadStep(t)

QuietSpec ==
    /\ QuietInit
    /\ [][QuietNext]_vars
    /\ \A c \in Callers : WF_vars(CallerStep(c))
    /\ \A t \in ThreadIds : WF_vars(QuietThreadStep(t))

\* The synthetic generator behind GET /telemetry and POST /reset.
GenSpec == Init /\ [][GenNext]_vars

\* One DJIDrone polled by the serving layer.
DjiSpec == Init /\ [][DjiNext]_vars

(***************************************************************************)
(* Properties of the streaming ingestor.                                   *)
(***************************************************************************)
LiveThreads == {t \in 1..Len(threads) : threads[t].pc \notin {"new", "done"}}

OpenConns == {i \in 1..Len(conns) : conns[i].open}

\* The position pair the n-th message would give, were it a position message.
PositionOf(n) ==
    <<Frac(msg_lat(n), 10000000), Frac(msg_lon(n), 10000000)>>

PairOf(rec) == <<rec.gps.latitude, rec.gps.longitude>>

\* C1: with one background writer, the (gps.latitude, gps.longitude) pair of
\* every record get_telemetry() returns is the default (0.0, 0.0) or the
\* pair of one single message; never the latitude of one message with the
\* longitude of another.
C1_NoTornPosition ==
    \A c \in Callers :
        (ret[c].kind = "record" /\ Len(threads) <= 1)
            => \/ PairOf(ret[c].rec) = <<Zero, Zero>>
               \/ \E n \in 1..MaxMsgs : PairOf(ret[c].rec) = PositionOf(n)

\* C2: with one background writer, every record get_telemetry() returns is
\* the mapping of the dictionary as it was at one instant of the call, so
\* that altitude equals gps.altitude and status is "ARMED" exactly when
\* armed is true.
C2_AtomicSnapshot ==
    \A c \in Callers :
        (ret[c].kind = "record" /\ Len(threads) <= 1)
            => /\ \E d \in snaps[c] :
                     ret[c].rec \in Records(ret[c].rec.timestamp, ReadAll(d))
               /\ ret[c].rec.altitude = ret[c].rec.gps.altitude
               /\ (ret[c].rec.status = "ARMED") <=> ret[c].rec.armed

\* C3: at most one transport is open and at most one background thread is
\* alive, whatever connect() and disconnect() calls were made.
C3_OneConnection ==
    /\ Cardinality(OpenConns) <= 1
    /\ Cardinality(LiveThreads) <= 1

\* C4: disconnect() is idempotent: while nothing is connected (never, or
\* since a disconnect() returned), no thread is alive and every disconnect()
\* under way was called in that situation, no step changes the ingestor or
\* acts on a transport.
C4_DisconnectIdempotent ==
    [][(/\ settled /\ settled'
        /\ LiveThreads = {}
        /\ \A c \in Callers :
              pc[c] \in DisconnectPcs => local[c].from \in {"never", "settled"})
       => UNCHANGED ingestor]_vars

\* A disconnect() called once exactly one connect() had returned normally.
DisconnectAfterConnect(c) ==
    pc[c] \in DisconnectPcs /\ local[c].from = "connected"

\* A get_telemetry() that was called and has returned after the disconnect()
\* that followed the one connect() returned, the peer having sent nothing.
GotAfterDisconnect(c) ==
    /\ ret[c].kind = "record"
    /\ ret[c].from = "settled"
    /\ Len(conns) = 1
    /\ Len(threads) = 1
    /\ nMsgs = 0

\* The numeric fields of a record.
Numbers(rec) ==
    <<rec.altitude, rec.battery_voltage, rec.attitude.roll,
      rec.attitude.pitch, rec.attitude.yaw, rec.gps.latitude,
      rec.gps.longitude, rec.gps.altitude, rec.ground_speed>>

\* C5 as stated: the record got after connect() and disconnect(), the peer
\* having sent nothing, has every numeric field zero, armed false and
\* flight_mode "UNKNOWN".
C5_AllNumbersZero ==
    \A c \in Callers :
        GotAfterDisconnect(c)
            => /\ Numbers(ret[c].rec) = [i \in 1..9 |-> Zero]
               /\ ret[c].rec.gps.satellites = 0
               /\ ret[c].rec.signal_strength = 0
               /\ ret[c].rec.armed = FALSE
               /\ ret[c].rec.flight_mode = "UNKNOWN"

\* The record of an ingestor that never stored a value, taken at time ts.
DefaultedAt(ts) ==
    [timestamp |-> ts,
     altitude |-> Zero,
     battery_voltage |-> Zero,
     status |-> "DISARMED",
     attitude |-> [roll |-> Zero, pitch |-> Zero, yaw |-> Zero],
     gps |-> [satellites |-> 0, latitude |-> Zero, longitude |-> Zero,
              altitude |-> Zero],
     signal_strength |-> 100,
     ground_speed |-> Zero,
     armed |-> FALSE,
     flight_mode |-> "UNKNOWN"]

\* C5 as amended: a disconnect() called after the one connect() returned,
\* the peer having sent nothing, returns (unless another connect() is made
\* meanwhile) with the background thread ended; and a get_telemetry()
\* called after it returns the record with every numeric field zero except
\* signal_strength, which is 100, with status "DISARMED", armed false and
\* flight_mode "UNKNOWN".
C5_DisconnectThenDefaults ==
    /\ \A c \in Callers :
          DisconnectAfterConnect(c) ~> (pc[c] = "idle" \/ Len(conns) > 1)
    /\ [](\A c \in Callers :
            (/\ ret[c].kind = "disconnected"
             /\ ret[c].from = "connected"
             /\ Len(conns) = 1)
                => LiveThreads = {})
    /\ [](\A c \in Callers :
            GotAfterDisconnect(c)
                => ret[c].rec = DefaultedAt(ret[c].rec.timestamp))

\* C5 witness: connect(), disconnect() and get_telemetry() have each
\* returned, in that order, and the thread has ended.
C5_Witness ==
    \E c \in Callers, o \in Callers :
        /\ GotAfterDisconnect(c)
        /\ ret[o].kind = "disconnected"
        /\ ret[o].from = "connected"
        /\ threads[1].pc = "done"
        /\ ~conns[1].open

\* C6: a disconnect() eventually returns, whatever connect() and
\* get_telemetry() calls other threads make meanwhile.
C6_DisconnectReturns ==
    \A c \in Callers : (pc[c] \in DisconnectPcs) ~> (pc[c] = "idle")

\* Caller c is in wait_heartbeat() on an open transport whose peer never
\* sends a heartbeat.
SilentWait(c) ==
    pc[c] = "c34" /\ conns[master].open /\ ~conns[master].hb

\* C7: connect() on a peer that never sends a heartbeat does not wait
\* forever.
C7_ConnectGivesUp ==
    \A c \in Callers : SilentWait(c) ~> ~SilentWait(c)

\* C12: a get_telemetry() called while the ingestor is disconnected (never
\* connected, or since the disconnect() that followed the connect()
\* returned) returns a record whose status is "DISCONNECTED".
C12_DisconnectedStatus ==
    \A c \in Callers :
        (ret[c].kind = "record" /\ ret[c].from \in {"never", "settled"})
            => ret[c].rec.status = "DISCONNECTED"

\* The step in which the get_telemetry() of c returns its record.
GetReturns(c) == pc[c] = "g107" /\ pc'[c] = "idle"

\* Through the whole get_telemetry() of c, the n-th message delivered was
\* the last one of its kind, it had been processed to the end, and nothing
\* was stored under the keys of that kind.
ProcessedBefore(c, kind, keys, n) ==
    /\ handled[kind] = [n |-> n, done |-> TRUE]
    /\ \A d \in snaps[c], e \in snaps[c], k \in keys :
          Get(d, k, Zero) = Get(e, k, Zero)

\* C13: with one background thread, a get_telemetry() taken after a
\* GLOBAL_POSITION_INT message was fully processed and before any later
\* one returns altitude = gps.altitude = relative_alt / 1000, gps.latitude =
\* lat / 1e7 and gps.longitude = lon / 1e7; and one taken after a SYS_STATUS
\* message was fully processed and before any later one returns
\* battery_voltage = voltage_battery / 1000.
C13_UnitConversion ==
    [][\A c \in Callers, n \in 1..MaxMsgs :
          (GetReturns(c) /\ Len(threads) <= 1)
             => /\ ProcessedBefore(c, "GLOBAL_POSITION_INT",
                                   {"altitude", "latitude", "longitude"}, n)
                   => /\ ret'[c].rec.altitude = Frac(msg_relative_alt(n), 1000)
                      /\ ret'[c].rec.gps.altitude
                            = Frac(msg_relative_alt(n), 1000)
                      /\ ret'[c].rec.gps.latitude = Frac(msg_lat(n), 10000000)
                      /\ ret'[c].rec.gps.longitude = Frac(msg_lon(n), 10000000)
                /\ ProcessedBefore(c, "SYS_STATUS", {"battery_voltage"}, n)
                   => ret'[c].rec.battery_voltage
                         = Frac(msg_voltage_battery(n), 1000)]_vars

\* C13 witness: the first message delivered was a GLOBAL_POSITION_INT with
\* relative_alt 12500 and the second a SYS_STATUS with voltage_battery
\* 16600; a get_telemetry() made after both were processed has returned
\* altitude 12.5, latitude 37.7749001 and battery_voltage 16.6.
C13_Witness ==
    \E c \in Callers :
        /\ ret[c].kind = "record"
        /\ Cardinality(snaps[c]) = 1
        /\ msg_relative_alt(1) = 12500
        /\ handled["GLOBAL_POSITION_INT"] = [n |-> 1, done |-> TRUE]
        /\ handled["SYS_STATUS"] = [n |-> 2, done |-> TRUE]
        /\ ret[c].rec.altitude = Frac(125, 10)
        /\ ret[c].rec.gps.altitude = Frac(125, 10)
        /\ ret[c].rec.gps.latitude = Frac(377749001, 10000000)
        /\ ret[c].rec.gps.longitude = Frac(-1224194001, 10000000)
        /\ ret[c].rec.battery_voltage = Frac(166, 10)

\* The keys of the state store each kind of message owns.
Owned(kind) ==
    IF kind = "ATTITUDE" THEN {"roll", "pitch", "yaw"}
    ELSE IF kind = "GLOBAL_POSITION_INT"
         THEN {"altitude", "latitude", "longitude"}
    ELSE IF kind = "VFR_HUD" THEN {"ground_speed", "altitude_msl"}
    ELSE IF kind = "SYS_STATUS" THEN {"battery_voltage", "battery_remaining"}
    ELSE IF kind = "GPS_RAW_INT" THEN {"gps_satellites", "gps_fix_type"}
    ELSE IF kind = "HEARTBEAT" THEN {"armed", "flight_mode"}
    ELSE {}

\* The keys whose presence or value a step changes in the state store.
ChangedKeys ==
    {k \in DOMAIN latest_telemetry \cup DOMAIN latest_telemetry' :
        \/ k \notin DOMAIN latest_telemetry
        \/ k \notin DOMAIN latest_telemetry'
        \/ latest_telemetry[k] # latest_telemetry'[k]}

\* C14: a step changes the state store only if it is a step of a thread
\* processing a message, and then it changes only keys owned by the kind of
\* that message: roll, pitch, yaw for ATTITUDE; altitude, latitude,
\* longitude for GLOBAL_POSITION_INT; ground_speed, altitude_msl for
\* VFR_HUD; battery_voltage, battery_remaining for SYS_STATUS;
\* gps_satellites, gps_fix_type for GPS_RAW_INT; armed, flight_mode for
\* HEARTBEAT; none for any other kind.  Receiving a message changes nothing.
C14_DispatcherFrame ==
    [][/\ ChangedKeys # {}
          => \E t \in 1..Len(threads) :
                /\ threads[t].pc = "proc"
                /\ threads'[t] # threads[t]
                /\ ChangedKeys \subseteq Owned(threads[t].msg.type)
       /\ \A t \in 1..Len(threads) :
             (threads[t].pc = "proc" /\ threads'[t] # threads[t])
                => ChangedKeys \subseteq Owned(threads[t].msg.type)
       /\ nMsgs' # nMsgs => ChangedKeys = {}]_vars

\* C14 witness: a GLOBAL_POSITION_INT message and then a HEARTBEAT message
\* were processed, and the state store holds the position of the first and
\* the armed flag and flight mode of the second, and nothing else.
C14_Witness ==
    /\ handled["GLOBAL_POSITION_INT"] = [n |-> 1, done |-> TRUE]
    /\ handled["HEARTBEAT"] = [n |-> 2, done |-> TRUE]
    /\ DOMAIN latest_telemetry
          = Owned("GLOBAL_POSITION_INT") \cup Owned("HEARTBEAT")
    /\ latest_telemetry["altitude"] = Frac(125, 10)
    /\ latest_telemetry["latitude"] = Frac(msg_lat(1), 10000000)
    /\ latest_telemetry["longitude"] = Frac(msg_lon(1), 10000000)
    /\ latest_telemetry["flight_mode"] \in {"STABILIZE", "LOITER"}

\* C15: a background thread ends only at the loop test and only when the
\* run flag is false: after a receive timeout, an exception of the receive
\* or an exception while processing, it is at the loop test again.  The run
\* flag goes from true to false only by disconnect().  Once the flag is
\* false a thread begins no further receive attempt: at the loop test it
\* can only end; and a receive attempt under way can always end by its
\* timeout.
C15_LoopUntilStopped ==
    /\ [][\A t \in 1..Len(threads) :
             /\ (threads[t].pc # "done" /\ threads'[t].pc = "done")
                   => (threads[t].pc = "loop" /\ ~running)
             /\ (threads[t].pc \in {"recv", "proc"}
                    /\ threads'[t].pc # threads[t].pc)
                   => threads'[t].pc \in {"loop", "proc"}
             /\ (threads[t].pc = "loop" /\ threads'[t].pc # "loop")
                   => threads'[t].pc = IF running THEN "recv" ELSE "done"]_vars
    /\ [][(running /\ ~running')
             => \E c \in Callers : pc[c] = "idle" /\ pc'[c] = "d130"]_vars
    /\ [](\A t \in 1..Len(threads) :
             /\ threads[t].pc = "recv" => ENABLED RecvTimeout(t)
             /\ threads[t].pc = "loop" => ENABLED LoopCheck(t))

\* C15 witness: the processing of a message raised, the thread went on,
\* and after disconnect() cleared the run flag the thread has ended.
C15_Witness ==
    /\ Len(threads) = 1
    /\ threads[1].pc = "done"
    /\ ~running
    /\ \E k \in Kinds : handled[k].n > 0 /\ ~handled[k].done
    /\ \E c \in Callers : ret[c].kind = "disconnected"

\* The lines of connect() in the order the claim gives: transport opened,
\* heartbeat received, data stream requested, run flag set, thread made,
\* thread started.
ConnectOrder == <<"idle", "c34", "c38", "c47", "c48", "c49">>

Streamed == {i \in 1..Len(conns) : conns[i].stream}

Started == {t \in 1..Len(threads) : threads[t].pc # "new"}

\* C16: a connect() goes through its lines in the order open, heartbeat,
\* stream request, run flag, thread; the data stream is requested only by a
\* call past its heartbeat wait, the run flag is set only by a call past its
\* stream request, a thread is made and started only by a call past setting
\* the run flag.  Hence the stream is requested only if a peer has sent a
\* heartbeat, the run flag is true and a thread exists only if the stream
\* was requested, and no message is received or stored before that.
C16_ConnectOrder ==
    /\ [][\A c \in Callers :
             (pc[c] \in ConnectPcs /\ pc'[c] # pc[c])
                => \/ pc'[c] = "idle"
                   \/ \E i \in 2..5 : /\ pc[c] = ConnectOrder[i]
                                      /\ pc'[c] = ConnectOrder[i + 1]]_vars
    /\ [][/\ Len(conns') > Len(conns)
             => \E c \in Callers : pc[c] = "idle" /\ pc'[c] = "c34"
          /\ Streamed' # Streamed
             => \E c \in Callers : pc[c] = "c38" /\ pc'[c] = "c47"
          /\ (running' /\ ~running)
             => \E c \in Callers : pc[c] = "c47" /\ pc'[c] = "c48"
          /\ Len(threads') > Len(threads)
             => \E c \in Callers : pc[c] = "c48" /\ pc'[c] = "c49"
          /\ Started' # Started
             => \E c \in Callers : pc[c] = "c49" /\ pc'[c] = "idle"]_vars
    /\ [](/\ Streamed # {} => \E j \in 1..Len(conns) : conns[j].hb
          /\ (running \/ threads # <<>>) => Streamed # {}
          /\ (nMsgs > 0 \/ latest_telemetry # EmptyDict)
                => (Started # {} /\ Streamed # {}
                      /\ \E j \in 1..Len(conns) : conns[j].hb))

\* C16 witness: the one connect() has returned normally: its transport is
\* open, its peer sent a heartbeat, the stream was requested, the run flag
\* is set, the thread runs and has stored the fields of a message.
C16_Witness ==
    /\ \E c \in Callers : ret[c].kind = "connected"
    /\ Len(conns) = 1
    /\ conns[1].open /\ conns[1].hb /\ conns[1].stream
    /\ running
    /\ Started = {1}
    /\ latest_telemetry # EmptyDict

\* A step of the get_telemetry() of c: its call, or one of its reads.
GetStep(c) ==
    \/ pc[c] = "idle" /\ pc'[c] = "g107"
    \/ pc[c] = "g107" /\ <<pc[c], local[c]>>' # <<pc[c], local[c]>>

\* C17: get_telemetry() is read-only: none of its steps changes the state
\* store, the run flag, the thread handle, the transport handle, any
\* transport or any thread, and none receives a message, whether nothing
\* was ever connected, a connection streams or it was stopped.
C17_GetReadOnly ==
    [][\A c \in Callers :
          GetStep(c) => UNCHANGED <<latest_telemetry, running, thread, master,
                                    conns, threads, nMsgs, handled>>]_vars

\* C17 witness: a get_telemetry() called on a streaming ingestor has
\* returned a record with stored values; the store, the run flag, the
\* thread and the transport are as they were.
C17_Witness ==
    \E c \in Callers :
        /\ ret[c].kind = "record"
        /\ ret[c].from = "connected"
        /\ ret[c].rec.altitude = Frac(125, 10)
        /\ Cardinality(snaps[c]) = 1
        /\ snaps[c] = {latest_telemetry}
        /\ running
        /\ master = 1 /\ conns[1].open
        /\ thread = 1 /\ threads[1].pc \in {"loop", "recv"}

\* Every call so far was made by one caller, one after the other, and the
\* last of them was a disconnect(), which has returned.
DisconnectReturned ==
    \E c \in Callers :
        /\ ret[c].kind = "disconnected"
        /\ \A o \in Callers :
              /\ pc[o] = "idle"
              /\ o # c => ret[o].kind = "none"

\* C18: once a disconnect() has returned, and until the next connect(), no
\* background thread stores into the state store or goes through a
\* recv_match() on the transport, whatever connect() calls were made
\* before, also more than one with no disconnect() between.
C18_QuietAfterDisconnect ==
    [][DisconnectReturned
          => /\ latest_telemetry' = latest_telemetry
             /\ nMsgs' = nMsgs
             /\ \A t \in 1..Len(threads) :
                   ~(threads[t].pc = "recv" /\ threads'[t].pc # "recv")]_vars

(***************************************************************************)
(* Properties of the synthetic generator.                                  *)
(***************************************************************************)
\* C8: the reported battery_voltage never increases from one call to the
\* next on an instance and is never below 14.0; a record whose
\* battery_voltage is 14.0 has status "RTL"; and once a record has status
\* "RTL", so has every later record of the instance.
C8_FloorMeansRTL ==
    /\ [](genRet.kind = "record"
            => /\ ~FLess(genRet.rec.battery_voltage, MinVoltage)
               /\ genRet.rec.battery_voltage = MinVoltage
                    => genRet.rec.status = "RTL")
    /\ [][(genRet.kind = "record" /\ genRet'.kind = "record")
            => /\ ~FLess(genRet.rec.battery_voltage, genRet'.rec.battery_voltage)
               /\ genRet.rec.status = "RTL" => genRet'.rec.status = "RTL"]_vars

\* C9: after a reset the call counter is zero and the battery is back at
\* 16.8, whatever was called before; and the first telemetry call after a
\* reset reports status "ARMED", armed true and a battery_voltage of 16.8.
C9_ResetRestores ==
    /\ genRet.kind = "reset"
          => /\ drone.request_count = 0
             /\ drone.initial_battery = Frac(168, 10)
             /\ BatteryVoltage(drone) = Frac(168, 10)
    /\ (genRet.kind = "record" /\ genRet.before # "none"
            /\ drone.request_count = 1)
          => /\ genRet.rec.status = "ARMED"
             /\ genRet.rec.armed = TRUE
             /\ genRet.rec.battery_voltage = Frac(168, 10)

\* C9 witness: the first record after a reset of an instance that had
\* reached the floor and reported "RTL".
C9_Witness ==
    /\ genRet.kind = "record"
    /\ genRet.before = "RTL"
    /\ drone.request_count = 1
    /\ genRet.rec.status = "ARMED"

(***************************************************************************)
(* Properties of the snapshot bridge.                                      *)
(***************************************************************************)
FailedSubRequests ==
    {i \in 1..Len(SubRequests) : ~djiResp[SubRequests[i]].ok}

\* C10: when at least one of the four sub-requests fails, get_telemetry()
\* returns the fully defaulted DISCONNECTED record in every field but
\* timestamp, with nothing of the sub-requests that succeeded.
C10_AnyFailureDisconnected ==
    (djiRet.kind = "record" /\ FailedSubRequests # {})
        => [djiRet.rec EXCEPT !.timestamp = 0] =
              [timestamp |-> 0,
               altitude |-> Zero,
               battery_voltage |-> Zero,
               status |-> "DISCONNECTED",
               attitude |-> [roll |-> Zero, pitch |-> Zero, yaw |-> Zero],
               gps |-> [satellites |-> 0, latitude |-> Zero,
                        longitude |-> Zero, altitude |-> Zero],
               signal_strength |-> 0,
               ground_speed |-> Zero,
               armed |-> FALSE,
               flight_mode |-> "UNKNOWN"]

\* C10 witness: one sub-request failed, the three others answered with
\* values, and the record returned is the DISCONNECTED one.
C10_Witness ==
    /\ djiRet.kind = "record"
    /\ Cardinality(FailedSubRequests) = 1
    /\ \A i \in 1..Len(SubRequests) :
          djiResp[SubRequests[i]].ok
              => DOMAIN djiResp[SubRequests[i]].body # {}
    /\ djiRet.rec.status = "DISCONNECTED"

(***************************************************************************)
(* Properties of the three providers together.                             *)
(***************************************************************************)
StatusTokens == {"ARMED", "DISARMED", "RTL", "DISCONNECTED", "UNKNOWN"}

\* C11: the status of every record get_telemetry() has returned, of the
\* generator, of the bridge adapter and of the ingestor, is one of ARMED,
\* DISARMED, RTL, DISCONNECTED, UNKNOWN.
C11_StatusInEnum ==
    /\ genRet.kind = "record" => genRet.rec.status \in StatusTokens
    /\ djiRet.kind = "record" => djiRet.rec.status \in StatusTokens
    /\ \A c \in Callers :
          ret[c].kind = "record" => ret[c].rec.status \in StatusTokens

====
